---- MODULE Spec2Model ----
(***************************************************************************)
(* Model of the two state machines of the repository:                      *)
(*   - the route access guard: the `authorized` callback of auth.ts, the   *)
(*     handler of middleware.ts with its matcher, and the session check of *)
(*     app/login/page.tsx (all in src/header-diagram.md);                  *)
(*   - the navigation header: the mobileMenuOpen state of Header, the      *)
(*     Dialog that shows it, the Disclosure and the Popover.               *)
(* Paths are strings and String.prototype.startsWith is modelled on their  *)
(* characters.                                                             *)
(***************************************************************************)
EXTENDS Naturals, Sequences, FiniteSets, TLC

VARIABLES
    gAuth,          \* guard input: the auth / req.auth value of the request
    gPath,          \* guard input: nextUrl.pathname
    gPhase,         \* "input" before the request is handled, "decided" after
    gAuthorized,    \* decision of the authorized callback for (gAuth, gPath)
    gMiddleware,    \* decision of the middleware handler for (gAuth, gPath)
    gLoginPage,     \* what LoginPage does with gAuth as its session
    gInvoked,       \* whether config.matcher let the middleware run on gPath
    gResponse,      \* decision the request finally receives from middleware.ts
    gHops,          \* redirects the browser has followed for this navigation
    session,        \* the session the browser's cookie verifies to
    pc,             \* "idle" on a page, "requesting", or "oauth" at the provider
    page,           \* the page the browser shows
    reqPath,        \* pathname of the request in flight, or NoPath
    hops,           \* redirects followed in the navigation in flight
    lastDecision,   \* the guard's decision on the last request handled
    mobileMenuOpen, \* Header's useState(false)
    prevOpen,       \* mobileMenuOpen as the last event found it
    disclosureOpen, \* internal open state of each Disclosure
    prevDisclosure, \* disclosureOpen as the last header event found it
    streak,         \* the run of consecutive toggles of one section
    popoverOpen,    \* internal open state of the desktop Popover
    focusTrap,      \* the Dialog keeps focus inside the modal
    scrollLock,     \* the Dialog locks the scroll of the body
    focus,          \* the element that has keyboard focus
    restoreFocus,   \* the element the Dialog returns focus to
    lastEvent,      \* the last event handled
    cToken,         \* callbacks' input: the token
    cUser,          \* callbacks' input: the user of a sign-in, or none
    cSession,       \* callbacks' input: the session
    cPhase,         \* "input" before the callbacks ran, "done" after
    cTokenOut,      \* what jwt returned
    cSessionOut     \* what session returned for jwt's token

gvars == <<gAuth, gPath, gPhase, gAuthorized, gMiddleware, gLoginPage,
           gInvoked, gResponse, gHops>>

navVars == <<session, pc, page, reqPath, hops, lastDecision>>
menuVars == <<mobileMenuOpen, prevOpen, disclosureOpen, prevDisclosure, streak,
              popoverOpen, focusTrap, scrollLock, focus, restoreFocus>>
fvars == <<navVars, menuVars, lastEvent>>
cvars == <<cToken, cUser, cSession, cPhase, cTokenOut, cSessionOut>>
vars == <<gvars, fvars, cvars>>

----------------------------------------------------------------------------
(* Bounds and input sets *)

\* Number of atoms concatenated to build a request path.
MaxAtoms == 2

\* Redirects a browser follows before it gives up on a navigation.
MaxHops == 3

\* Number of expandable sections in the mobile menu.
NumSections == 2

\* Character strings request paths are built from: the prefixes the code
\* tests, the routes of the app, and filler.
Atoms ==
    { "/", "/dashboard", "/login", "/api", "/_next/static", "/_next/image",
      "/favicon.ico", "/faviconxico", "/design", "x" }

RECURSIVE Concats(_)
Concats(n) ==
    IF n = 0 THEN { "" }
    ELSE LET shorter == Concats(n - 1)
         IN  shorter \cup { s \o a : s \in shorter, a \in Atoms }

\* Every pathname starts with "/".
Paths == { p \in Concats(MaxAtoms) : Len(p) >= 1 /\ SubSeq(p, 1, 1) = "/" }

Users == { "u1", "u2" }
NoUser == "none"

\* auth is null, a session object without a user, or a session with a user.
AuthNull == [present |-> FALSE, user |-> NoUser]
AuthNoUser == [present |-> TRUE, user |-> NoUser]
AuthOf(u) == [present |-> TRUE, user |-> u]
AuthValues == { AuthNull, AuthNoUser } \cup { AuthOf(u) : u \in Users }

----------------------------------------------------------------------------
(* auth.ts and middleware.ts *)

DashboardPath == "/dashboard"
LoginPath == "/login"

\* pages.signIn
signInPage == LoginPath

\* String.prototype.startsWith
StartsWith(s, p) == Len(s) >= Len(p) /\ SubSeq(s, 1, Len(p)) = p

\* new URL(path, nextUrl) for an absolute path: the base's path is replaced.
URL(path, nextUrl) == path

\* The three decisions.
Allow == [kind |-> "Allow", target |-> "none"]
DenyRedirectToLogin(t) == [kind |-> "DenyRedirectToLogin", target |-> t]
RedirectAwayFromLogin(t) == [kind |-> "RedirectAwayFromLogin", target |-> t]
Decisions ==
    { Allow } \cup { DenyRedirectToLogin(p) : p \in Paths }
              \cup { RedirectAwayFromLogin(p) : p \in Paths }
IsRedirect(d) == d.kind \in { "DenyRedirectToLogin", "RedirectAwayFromLogin" }

\* !!auth?.user
authorizedIsLoggedIn(auth) == auth.present /\ auth.user # NoUser

\* A handler that takes every request for logged in.
middlewareSeesEveryoneLoggedIn(auth) == TRUE

\* !!req.auth
middlewareIsLoggedIn(auth) == auth.present

\* nextUrl.pathname.startsWith('/dashboard')
isOnDashboard(pathname) == StartsWith(pathname, "/dashboard")

\* isOnLogin testing for '/' instead of '/login'.
isOnLoginAnyPath(pathname) == StartsWith(pathname, "/")

\* nextUrl.pathname.startsWith('/login')
isOnLogin(pathname) == StartsWith(pathname, "/login")

\* Return values of the callback: true, false or a redirect Response.
RetTrue == [kind |-> "true", location |-> "none"]
RetFalse == [kind |-> "false", location |-> "none"]
RetRedirect(loc) == [kind |-> "redirect", location |-> loc]
RetUndefined == [kind |-> "undefined", location |-> "none"]

\* authorized with the redirect of a signed-in user aimed at the login page.
authorizedRedirectsToLogin(auth, pathname) ==
    IF isOnDashboard(pathname)
    THEN IF authorizedIsLoggedIn(auth) THEN RetTrue ELSE RetFalse
    ELSE IF authorizedIsLoggedIn(auth)
         THEN RetRedirect(URL("/login", pathname))
         ELSE RetTrue

authorized(auth, pathname) ==
    IF isOnDashboard(pathname)
    THEN IF authorizedIsLoggedIn(auth) THEN RetTrue ELSE RetFalse
    ELSE IF authorizedIsLoggedIn(auth)
         THEN RetRedirect(URL("/dashboard", pathname))
         ELSE RetTrue

\* middleware with the negation of the first test lost.
middlewareLostNegation(auth, pathname) ==
    IF isOnDashboard(pathname) /\ middlewareIsLoggedIn(auth)
    THEN RetRedirect(URL("/login", pathname))
    ELSE IF isOnLogin(pathname) /\ middlewareIsLoggedIn(auth)
         THEN RetRedirect(URL("/dashboard", pathname))
         ELSE RetUndefined

middleware(auth, pathname) ==
    IF isOnDashboard(pathname) /\ ~middlewareIsLoggedIn(auth)
    THEN RetRedirect(URL("/login", pathname))
    ELSE IF isOnLogin(pathname) /\ middlewareIsLoggedIn(auth)
         THEN RetRedirect(URL("/dashboard", pathname))
         ELSE RetUndefined

\* What a return value means for the request: true / undefined serve the
\* page, false redirects to pages.signIn, a redirect Response is followed.
DecisionOf(ret) ==
    CASE ret.kind \in { "true", "undefined" } -> Allow
      [] ret.kind = "false" -> DenyRedirectToLogin(signInPage)
      [] ret.kind = "redirect" /\ ret.location = LoginPath ->
             DenyRedirectToLogin(ret.location)
      [] OTHER -> RedirectAwayFromLogin(ret.location)

authorizedDecision(auth, pathname) == DecisionOf(authorized(auth, pathname))
middlewareDecision(auth, pathname) == DecisionOf(middleware(auth, pathname))

\* LoginPage sending a signed-in user to the home page.
LoginPageToHome(sess) ==
    IF sess.present THEN RetRedirect("/") ELSE RetUndefined

\* LoginPage: if (session) redirect('/dashboard'), else the page renders.
LoginPage(sess) ==
    IF sess.present THEN RetRedirect("/dashboard") ELSE RetUndefined

\* The negative lookahead (?!api|_next/static|_next/image|favicon.ico) at the
\* text after the leading "/"; the "." of favicon.ico matches any character.
Lookahead(rest) ==
    \/ StartsWith(rest, "api")
    \/ StartsWith(rest, "_next/static")
    \/ StartsWith(rest, "_next/image")
    \/ /\ Len(rest) >= 11
       /\ SubSeq(rest, 1, 7) = "favicon"
       /\ SubSeq(rest, 9, 11) = "ico"

\* config.matcher: '/((?!api|_next/static|_next/image|favicon.ico).*)'
matcher(pathname) ==
    /\ StartsWith(pathname, "/")
    /\ ~Lookahead(SubSeq(pathname, 2, Len(pathname)))

----------------------------------------------------------------------------
(* The header: Header, Dialog, Disclosure, Popover *)

\* The expandable sections of the mobile menu: "Product" and, up to the
\* bound, further ones.
SectionNames == <<"Product", "Section2", "Section3", "Section4">>
Sections == { SectionNames[i] : i \in 1..NumSections }

\* Section ids no Disclosure is rendered for.
UnknownSections == { "Pricing" }

AllCollapsed == [s \in Sections |-> FALSE]

\* The pages of the app a user visits.
Routes ==
    { "/", "/design", "/design/beginning", LoginPath, DashboardPath,
      DashboardPath \o "/x" }

NoPath == "none"
TooManyRedirects == "ERR_TOO_MANY_REDIRECTS"

\* No element to return focus to. The elements that hold keyboard focus are
\* "body", "menuButton", "popoverButton" and "panel", an element inside the
\* DialogPanel.
NoElement == "none"

\* No section has been toggled since the last other header event.
NoStreak == [id |-> "none", n |-> 0, orig |-> FALSE]

\* A setter that flips the state instead of storing the value passed.
setMobileMenuOpenFlips(value) == ~mobileMenuOpen

\* The setter of useState: the state becomes the value passed.
setMobileMenuOpen(value) == value

\* Dialog's onClose={setMobileMenuOpen}: the Dialog calls it with false.
onClose(value) == setMobileMenuOpen(value)

\* A DisclosureButton that expands the section whatever its state.
DisclosureToggleExpands(open) == TRUE

\* A click on the DisclosureButton: the internal state toggles.
DisclosureToggle(open) == ~open

\* A toggle that falls back to the first Disclosure for an id it has none for.
toggleSectionFallsBack(d, id) ==
    IF id \in DOMAIN d THEN [d EXCEPT ![id] = DisclosureToggle(d[id])]
    ELSE [d EXCEPT ![SectionNames[1]] = DisclosureToggle(d[SectionNames[1]])]

\* The Disclosure keyed by id toggles, the others keep their state; an id
\* without a Disclosure has no button to click and nothing toggles.
toggleSection(d, id) ==
    IF id \in DOMAIN d THEN [d EXCEPT ![id] = DisclosureToggle(d[id])] ELSE d

\* The Dialog renders its panel while open and disappears when open is
\* false: the Disclosures in the panel, and their internal state, go with it.
DialogPanelSections(open, d) == IF open THEN d ELSE AllCollapsed

\* A Dialog that never gives back what it acquired.
DialogLocksLeak(open) == open \/ scrollLock

\* Focus trap and body scroll lock of the Dialog: held while it is open.
DialogLocks(open) == open

\* A Dialog that drops focus on the body when it closes.
FocusAfterCloseToBody(saved) == "body"

\* Return focus to the trigger when closed: the element that had focus when
\* the Dialog opened gets it back.
FocusAfterClose(saved) == saved

\* Focus after the user activates an element: the element, unless the focus
\* trap keeps focus inside the modal.
FocusOnActivate(el) == IF focusTrap THEN focus ELSE el

\* What the last event found, for the properties that compare before and
\* after.
Remember ==
    /\ prevOpen' = mobileMenuOpen
    /\ prevDisclosure' = disclosureOpen

\* The Dialog re-renders with open = mobileMenuOpen'; focusAtCall is the
\* element that had focus when the handler ran.
RenderDialog(open, focusAtCall) ==
    /\ mobileMenuOpen' = open
    /\ focusTrap' = DialogLocks(open)
    /\ scrollLock' = DialogLocks(open)
    /\ disclosureOpen' = DialogPanelSections(open, disclosureOpen)
    /\ IF open /\ ~mobileMenuOpen
       THEN /\ restoreFocus' = focusAtCall
            /\ focus' = "panel"
       ELSE IF ~open /\ mobileMenuOpen
            THEN /\ focus' = FocusAfterClose(restoreFocus)
                 /\ restoreFocus' = NoElement
            ELSE UNCHANGED <<focus, restoreFocus>>

\* A Header that keeps the state of the one it replaces.
MountHeaderKeepsState ==
    /\ Remember
    /\ streak' = NoStreak
    /\ UNCHANGED <<mobileMenuOpen, disclosureOpen, popoverOpen, focusTrap,
                   scrollLock, focus, restoreFocus>>

\* The page is torn down and a Header is mounted: the old Dialog's cleanup
\* releases focus trap and scroll lock, useState(false), every Disclosure
\* and the Popover closed.
MountHeader ==
    /\ mobileMenuOpen' = FALSE
    /\ Remember
    /\ disclosureOpen' = AllCollapsed
    /\ popoverOpen' = FALSE
    /\ focusTrap' = DialogLocks(FALSE)
    /\ scrollLock' = DialogLocks(FALSE)
    /\ focus' = "body"
    /\ restoreFocus' = NoElement
    /\ streak' = NoStreak

HeaderShown == page \in Routes

\* Mobile menu button: onClick -> setMobileMenuOpen(true).
ClickMobileMenuButton ==
    /\ HeaderShown
    /\ RenderDialog(setMobileMenuOpen(TRUE), FocusOnActivate("menuButton"))
    /\ Remember
    /\ streak' = NoStreak
    /\ lastEvent' = "menuButton"
    /\ UNCHANGED <<navVars, popoverOpen, gvars, cvars>>

\* Close button of the panel: onClick={() => setMobileMenuOpen(false)}.
ClickCloseButton ==
    /\ HeaderShown
    /\ RenderDialog(setMobileMenuOpen(FALSE), focus)
    /\ Remember
    /\ streak' = NoStreak
    /\ lastEvent' = "closeButton"
    /\ UNCHANGED <<navVars, popoverOpen, gvars, cvars>>

\* Escape key while the Dialog is open: the Dialog calls onClose(false).
PressEscape ==
    /\ HeaderShown
    /\ mobileMenuOpen
    /\ RenderDialog(onClose(FALSE), focus)
    /\ Remember
    /\ streak' = NoStreak
    /\ lastEvent' = "escape"
    /\ UNCHANGED <<navVars, popoverOpen, gvars, cvars>>

\* Click on the backdrop, outside the panel: the Dialog calls onClose(false).
ClickBackdrop ==
    /\ HeaderShown
    /\ mobileMenuOpen
    /\ RenderDialog(onClose(FALSE), focus)
    /\ Remember
    /\ streak' = NoStreak
    /\ lastEvent' = "backdrop"
    /\ UNCHANGED <<navVars, popoverOpen, gvars, cvars>>

\* The run of toggles of section s after one more toggle.
StreakAfter(s) ==
    IF streak.id = s /\ streak.n = 1
    THEN [streak EXCEPT !.n = 2]
    ELSE [id |-> s, n |-> 1, orig |-> disclosureOpen[s]]

\* A DisclosureButton whose click also closes the mobile menu.
ToggleDisclosureClosesMenu(s) ==
    /\ HeaderShown
    /\ mobileMenuOpen
    /\ disclosureOpen' = toggleSection(disclosureOpen, s)
    /\ mobileMenuOpen' = FALSE
    /\ Remember
    /\ streak' = StreakAfter(s)
    /\ lastEvent' = "disclosure"
    /\ UNCHANGED <<navVars, popoverOpen, focusTrap, scrollLock, focus,
                   restoreFocus, gvars, cvars>>

\* DisclosureButton of a section inside the panel: its internal state toggles.
ToggleDisclosure(s) ==
    /\ HeaderShown
    /\ mobileMenuOpen
    /\ disclosureOpen' = toggleSection(disclosureOpen, s)
    /\ Remember
    /\ streak' = StreakAfter(s)
    /\ lastEvent' = "disclosure"
    /\ UNCHANGED <<navVars, mobileMenuOpen, popoverOpen, focusTrap, scrollLock,
                   focus, restoreFocus, gvars, cvars>>

\* A toggle asked for a section id that has no Disclosure.
ToggleUnknownSection(id) ==
    /\ HeaderShown
    /\ disclosureOpen' = toggleSection(disclosureOpen, id)
    /\ Remember
    /\ streak' = NoStreak
    /\ lastEvent' = "unknownSection"
    /\ UNCHANGED <<navVars, mobileMenuOpen, popoverOpen, focusTrap, scrollLock,
                   focus, restoreFocus, gvars, cvars>>

\* PopoverButton of the desktop menu: its internal state toggles.
TogglePopover ==
    /\ HeaderShown
    /\ popoverOpen' = ~popoverOpen
    /\ focus' = FocusOnActivate("popoverButton")
    /\ Remember
    /\ streak' = NoStreak
    /\ lastEvent' = "popover"
    /\ UNCHANGED <<navVars, mobileMenuOpen, disclosureOpen, focusTrap,
                   scrollLock, restoreFocus, gvars, cvars>>

----------------------------------------------------------------------------
(* The jwt and session callbacks of auth.ts *)

\* A property that is not set.
Undefined == "undefined"

Emails == { "a@example.com", "b@example.com" }

\* Tokens: sub is a user id or not set.
Tokens == [sub : Users \cup { Undefined }, email : Emails]

\* The user argument of jwt: present at sign-in, absent on later calls.
AbsentUser == [present |-> FALSE, id |-> Undefined]
SignInUsers == { AbsentUser } \cup [present : { TRUE }, id : Users]

\* Sessions: session.user is absent, or has an email and perhaps an id.
AbsentSessionUser ==
    [present |-> FALSE, id |-> Undefined, email |-> Undefined]
Sessions ==
    [user : { AbsentSessionUser } \cup
            [present : { TRUE }, id : Users \cup { Undefined }, email : Emails]]

\* A jwt callback that returns the token as it came.
jwtKeepsToken(token, user) == token

\* jwt({ token, user }): if (user) token.sub = user.id; return token.
jwt(token, user) ==
    IF user.present THEN [token EXCEPT !.sub = user.id] ELSE token

\* session({ session, token }): if (token.sub && session.user)
\* session.user.id = token.sub; return session.
sessionCallback(sess, token) ==
    IF token.sub # Undefined /\ sess.user.present
    THEN [sess EXCEPT !.user.id = token.sub]
    ELSE sess

\* NextAuth processes the provider's callback for user u with email e: it
\* creates the JWT, jwt runs with the user, session runs with that token.
SignedInSession(u, e) ==
    sessionCallback(
        [user |-> [present |-> TRUE, id |-> Undefined, email |-> e]],
        jwt([sub |-> Undefined, email |-> e], [present |-> TRUE, id |-> u]))

\* The callbacks' variables when no call is under study.
CallbackIdle ==
    /\ cToken = [sub |-> Undefined, email |-> Undefined]
    /\ cUser = AbsentUser
    /\ cSession = [user |-> AbsentSessionUser]
    /\ cPhase = "idle"
    /\ cTokenOut = [sub |-> Undefined, email |-> Undefined]
    /\ cSessionOut = [user |-> AbsentSessionUser]

----------------------------------------------------------------------------
(* Navigation, sign-in and sign-out *)

\* The user follows a link or enters an address.
Navigate(p) ==
    /\ pc = "idle"
    /\ pc' = "requesting"
    /\ reqPath' = p
    /\ hops' = 0
    /\ lastEvent' = "navigate"
    /\ UNCHANGED <<session, page, lastDecision, menuVars, gvars, cvars>>

\* middleware.ts on the request in flight, then the page: a redirect is
\* followed by the browser, a page that is served mounts a fresh Header, the
\* browser's error page replaces the app and its Header.
HandleRequest ==
    /\ pc = "requesting"
    /\ LET d == IF matcher(reqPath) THEN middlewareDecision(session, reqPath)
                ELSE Allow
           r == IF reqPath = LoginPath THEN LoginPage(session)
                ELSE RetUndefined
           target == IF IsRedirect(d) THEN d.target ELSE r.location
       IN  /\ lastDecision' = d
           /\ IF IsRedirect(d) \/ r.kind = "redirect"
              THEN IF hops < MaxHops
                   THEN /\ reqPath' = target
                        /\ hops' = hops + 1
                        /\ lastEvent' = "redirect"
                        /\ UNCHANGED <<pc, page, menuVars>>
                   ELSE /\ pc' = "idle"
                        /\ page' = TooManyRedirects
                        /\ reqPath' = NoPath
                        /\ MountHeader
                        /\ lastEvent' = "unmount"
                        /\ UNCHANGED hops
              ELSE /\ pc' = "idle"
                   /\ page' = reqPath
                   /\ reqPath' = NoPath
                   /\ MountHeader
                   /\ lastEvent' = "mount"
                   /\ UNCHANGED hops
    /\ UNCHANGED <<session, gvars, cvars>>

\* SignIn on the login page: signIn("google") sends the browser to Google.
ClickSignIn ==
    /\ pc = "idle"
    /\ page = LoginPath
    /\ pc' = "oauth"
    /\ lastEvent' = "signIn"
    /\ UNCHANGED <<session, page, reqPath, hops, lastDecision, menuVars, gvars, cvars>>

\* Google redirects back to /api/auth/callback/google, NextAuth creates the
\* JWT and the session and redirects the user to /dashboard.
ProviderCallback ==
    /\ pc = "oauth"
    /\ \E u \in Users, e \in Emails :
           session' = AuthOf(SignedInSession(u, e).user.id)
    /\ pc' = "requesting"
    /\ reqPath' = DashboardPath
    /\ hops' = 0
    /\ lastEvent' = "callback"
    /\ UNCHANGED <<page, lastDecision, menuVars, gvars, cvars>>

\* SignOut in the side navigation of the dashboard, shown when session?.user.
ClickSignOut ==
    /\ pc = "idle"
    /\ StartsWith(page, DashboardPath)
    /\ session.present /\ session.user # NoUser
    /\ session' = AuthNull
    /\ lastEvent' = "signOut"
    /\ UNCHANGED <<pc, page, reqPath, hops, lastDecision, menuVars, gvars, cvars>>

\* The session token expires.
SessionExpire ==
    /\ session.present
    /\ session' = AuthNull
    /\ lastEvent' = "expire"
    /\ UNCHANGED <<pc, page, reqPath, hops, lastDecision, menuVars, gvars, cvars>>

\* The guard's variables when no request is under study.
GuardIdle ==
    /\ gAuth = AuthNull
    /\ gPath = "/"
    /\ gPhase = "idle"
    /\ gAuthorized = Allow
    /\ gMiddleware = Allow
    /\ gLoginPage = RetUndefined
    /\ gInvoked = FALSE
    /\ gResponse = Allow
    /\ gHops = 0

\* The home page is loaded, nobody is signed in.
FlowInit ==
    /\ session = AuthNull
    /\ pc = "idle"
    /\ page = "/"
    /\ reqPath = NoPath
    /\ hops = 0
    /\ lastDecision = Allow
    /\ mobileMenuOpen = FALSE
    /\ prevOpen = FALSE
    /\ disclosureOpen = AllCollapsed
    /\ prevDisclosure = AllCollapsed
    /\ streak = NoStreak
    /\ popoverOpen = FALSE
    /\ focusTrap = FALSE
    /\ scrollLock = FALSE
    /\ focus = "body"
    /\ restoreFocus = NoElement
    /\ lastEvent = "mount"

Init == FlowInit /\ GuardIdle /\ CallbackIdle

Next ==
    \/ ClickMobileMenuButton
    \/ ClickCloseButton
    \/ PressEscape
    \/ ClickBackdrop
    \/ \E s \in Sections : ToggleDisclosure(s)
    \/ \E id \in UnknownSections : ToggleUnknownSection(id)
    \/ TogglePopover
    \/ \E p \in Routes : Navigate(p)
    \/ HandleRequest
    \/ ClickSignIn
    \/ ProviderCallback
    \/ ClickSignOut
    \/ SessionExpire

Spec == Init /\ [][Next]_vars

\* A session outlives the navigation in flight: it expires between
\* navigations.
SessionExpireIdle == pc = "idle" /\ SessionExpire

LiveNext ==
    \/ ClickMobileMenuButton
    \/ ClickCloseButton
    \/ PressEscape
    \/ ClickBackdrop
    \/ \E s \in Sections : ToggleDisclosure(s)
    \/ \E id \in UnknownSections : ToggleUnknownSection(id)
    \/ TogglePopover
    \/ \E p \in Routes : Navigate(p)
    \/ HandleRequest
    \/ ClickSignIn
    \/ ProviderCallback
    \/ ClickSignOut
    \/ SessionExpireIdle

\* The server answers every request and the provider answers the exchange.
LiveSpec ==
    /\ Init
    /\ [][LiveNext]_vars
    /\ WF_vars(HandleRequest)
    /\ WF_vars(ProviderCallback)

----------------------------------------------------------------------------
(* The guard applied to one request *)

GuardInit ==
    /\ gAuth \in AuthValues
    /\ gPath \in Paths
    /\ gPhase = "input"
    /\ gAuthorized = Allow
    /\ gMiddleware = Allow
    /\ gLoginPage = RetUndefined
    /\ gInvoked = FALSE
    /\ gResponse = Allow
    /\ gHops = 0
    /\ FlowInit
    /\ CallbackIdle

\* A request arrives: the matcher selects it or not, the callback and the
\* handler decide, the login page checks its session.
HandleGuardRequest ==
    /\ gPhase = "input"
    /\ gPhase' = "decided"
    /\ gAuthorized' = authorizedDecision(gAuth, gPath)
    /\ gMiddleware' = middlewareDecision(gAuth, gPath)
    /\ gLoginPage' = LoginPage(gAuth)
    /\ gInvoked' = matcher(gPath)
    /\ gResponse' = IF matcher(gPath) THEN middlewareDecision(gAuth, gPath)
                    ELSE Allow
    /\ UNCHANGED <<gAuth, gPath, gHops, fvars, cvars>>

\* The browser follows a redirect response: it requests the target with the
\* same session cookie.
FollowGuardRedirect ==
    /\ gPhase = "decided"
    /\ IsRedirect(gResponse)
    /\ gHops < MaxHops
    /\ gPath' = gResponse.target
    /\ gHops' = gHops + 1
    /\ gPhase' = "input"
    /\ gAuthorized' = Allow
    /\ gMiddleware' = Allow
    /\ gLoginPage' = RetUndefined
    /\ gInvoked' = FALSE
    /\ gResponse' = Allow
    /\ UNCHANGED <<gAuth, fvars, cvars>>

\* The next request, with any session and path.
NextGuardRequest ==
    /\ gPhase = "decided"
    /\ gAuth' \in AuthValues
    /\ gPath' \in Paths
    /\ gPhase' = "input"
    /\ gAuthorized' = Allow
    /\ gMiddleware' = Allow
    /\ gLoginPage' = RetUndefined
    /\ gInvoked' = FALSE
    /\ gResponse' = Allow
    /\ gHops' = 0
    /\ UNCHANGED <<fvars, cvars>>

GuardNext == HandleGuardRequest \/ FollowGuardRedirect \/ NextGuardRequest

GuardSpec == GuardInit /\ [][GuardNext]_vars

----------------------------------------------------------------------------
(* The callbacks applied to one token, user and session *)

CallbackInit ==
    /\ cToken \in Tokens
    /\ cUser \in SignInUsers
    /\ cSession \in Sessions
    /\ cPhase = "input"
    /\ cTokenOut = cToken
    /\ cSessionOut = cSession
    /\ FlowInit
    /\ GuardIdle

\* NextAuth calls jwt, then session with the token jwt returned.
RunCallbacks ==
    /\ cPhase = "input"
    /\ cPhase' = "done"
    /\ cTokenOut' = jwt(cToken, cUser)
    /\ cSessionOut' = sessionCallback(cSession, jwt(cToken, cUser))
    /\ UNCHANGED <<cToken, cUser, cSession, gvars, fvars>>

\* The next call, with any token, user and session.
NextCallbackInput ==
    /\ cPhase = "done"
    /\ cPhase' = "input"
    /\ cToken' \in Tokens
    /\ cUser' \in SignInUsers
    /\ cSession' \in Sessions
    /\ cTokenOut' = cToken'
    /\ cSessionOut' = cSession'
    /\ UNCHANGED <<gvars, fvars>>

CallbackNext == RunCallbacks \/ NextCallbackInput

CallbackSpec == CallbackInit /\ [][CallbackNext]_vars

----------------------------------------------------------------------------
(* Properties of the guard, under GuardSpec *)

Decided == gPhase = "decided"

C2_OtherPathsAllowed ==
    (Decided /\ ~StartsWith(gPath, DashboardPath) /\ gPath # LoginPath) =>
        (gAuthorized = Allow /\ gMiddleware = Allow)

\* C3: with a session, a request for /login is decided RedirectAwayFromLogin
\* with target /dashboard, and the login page's own session check redirects
\* to /dashboard too.
C3_LoginWithSessionRedirects ==
    (Decided /\ gPath = LoginPath) =>
        /\ authorizedIsLoggedIn(gAuth) =>
               gAuthorized = RedirectAwayFromLogin(DashboardPath)
        /\ middlewareIsLoggedIn(gAuth) =>
               /\ gMiddleware = RedirectAwayFromLogin(DashboardPath)
               /\ gResponse = RedirectAwayFromLogin(DashboardPath)
        /\ gAuth.present => gLoginPage = RetRedirect(DashboardPath)

C3_Witness ==
    /\ Decided
    /\ gPath = LoginPath
    /\ gAuth \in { AuthOf(u) : u \in Users }
    /\ gMiddleware = RedirectAwayFromLogin(DashboardPath)
    /\ gLoginPage = RetRedirect(DashboardPath)

\* C4: no redirect chains: the guard applied, with the same session, to the
\* target of a redirect it produced allows; an anonymous request for /login
\* and a signed-in request for /dashboard are allowed; a browser following
\* the redirects stops after at most one hop.
C4_NoRedirectChains ==
    /\ gHops <= 1
    /\ Decided =>
        /\ IsRedirect(gAuthorized) =>
               authorizedDecision(gAuth, gAuthorized.target) = Allow
        /\ IsRedirect(gMiddleware) =>
               middlewareDecision(gAuth, gMiddleware.target) = Allow
        /\ (gPath = LoginPath /\ gAuth = AuthNull) =>
               (gAuthorized = Allow /\ gMiddleware = Allow)
        /\ (gPath = DashboardPath /\ gAuth \in { AuthOf(u) : u \in Users }) =>
               (gAuthorized = Allow /\ gMiddleware = Allow)
        /\ gHops = 1 => gResponse = Allow

C4_Witness ==
    /\ Decided
    /\ gHops = 1
    /\ gPath = LoginPath
    /\ gAuth = AuthNull
    /\ gResponse = Allow

\* The conditions under which each implementation answers with a redirect.
middlewareProtectedRule(auth, pathname) ==
    isOnDashboard(pathname) /\ ~middlewareIsLoggedIn(auth)
middlewareLoginRule(auth, pathname) ==
    isOnLogin(pathname) /\ middlewareIsLoggedIn(auth)
RulesApplicable(auth, pathname) ==
    (IF middlewareProtectedRule(auth, pathname) THEN 1 ELSE 0)
        + (IF middlewareLoginRule(auth, pathname) THEN 1 ELSE 0)

\* C5: a request gets at most one redirect decision, no path is both under
\* the protected prefix and a login path, and for a path under the protected
\* prefix the protected-area rule alone decides.
C5_OneRuleOneRedirect ==
    Decided =>
        /\ ~(isOnDashboard(gPath) /\ isOnLogin(gPath))
        /\ RulesApplicable(gAuth, gPath) <= 1
        /\ IsRedirect(gMiddleware) <=> RulesApplicable(gAuth, gPath) = 1
        /\ StartsWith(gPath, DashboardPath) =>
               /\ gMiddleware = IF middlewareProtectedRule(gAuth, gPath)
                                THEN DenyRedirectToLogin(LoginPath) ELSE Allow
               /\ gAuthorized.kind # "RedirectAwayFromLogin"

C5_Witness ==
    /\ Decided
    /\ StartsWith(gPath, DashboardPath)
    /\ gPath = DashboardPath \o LoginPath
    /\ gAuth \in { AuthOf(u) : u \in Users }
    /\ gMiddleware = Allow

\* The exempt prefixes as the configuration names them.
UnderExemptPrefix(pathname) ==
    \/ StartsWith(pathname, "/api")
    \/ StartsWith(pathname, "/_next/static")
    \/ StartsWith(pathname, "/_next/image")
    \/ StartsWith(pathname, "/favicon.ico")

\* C6: a request under an exempt prefix is never evaluated by the guard and
\* receives no redirect, and every other request is evaluated.
C6_ExemptExactlyUnevaluated ==
    Decided =>
        /\ UnderExemptPrefix(gPath) => (~gInvoked /\ ~IsRedirect(gResponse))
        /\ ~UnderExemptPrefix(gPath) => gInvoked

\* A session that failed verification: auth absent or without a user.
FailedVerification(auth) == ~auth.present \/ auth.user = NoUser

\* C7: the guard always returns one of the three decisions, and a session
\* that failed verification is decided exactly as no session.
C7_TotalAndFailedIsAnonymous ==
    Decided =>
        /\ gAuthorized \in Decisions
        /\ gMiddleware \in Decisions
        /\ FailedVerification(gAuth) =>
               /\ gAuthorized = authorizedDecision(AuthNull, gPath)
               /\ gMiddleware = middlewareDecision(AuthNull, gPath)

----------------------------------------------------------------------------
(* Properties of sign-in and of the header *)

ProtectedRoutes == { r \in Routes : StartsWith(r, DashboardPath) }

\* C8: an anonymous request for /dashboard ends on /login after one
\* redirect; once the user has started the sign-in, the provider's answer
\* creates a session and the user reaches /dashboard; and a request for a
\* protected path made with a session is served that path.
C8_SignInReachesDashboard ==
    /\ (pc = "requesting" /\ reqPath = DashboardPath /\ hops = 0
            /\ session = AuthNull)
         ~> (pc = "idle" /\ page = LoginPath /\ hops = 1)
    /\ (pc = "oauth")
         ~> (pc = "idle" /\ page = DashboardPath /\ session.present
                /\ session.user \in Users /\ lastDecision = Allow)
    /\ \A p \in ProtectedRoutes :
           (pc = "requesting" /\ reqPath = p /\ session.present)
             ~> (pc = "idle" /\ page = p /\ lastDecision = Allow)

\* A user who holds a session, which only the provider's answer to a sign-in
\* started on /login creates, has just been served /dashboard.
C8_Witness ==
    /\ pc = "idle"
    /\ page = DashboardPath
    /\ lastEvent = "mount"
    /\ lastDecision = Allow
    /\ session \in { AuthOf(u) : u \in Users }

\* The events that tear the page down: a page is served, or the browser
\* gives up on the navigation.
MountEvents == { "mount", "unmount" }

CloseEvents == { "closeButton", "escape", "backdrop" }

\* C9: the overlay starts closed; after the open trigger it is open and
\* after a close trigger it is closed, whatever it was before.
C9_OpenThenCloseSetsState ==
    /\ lastEvent = "mount" => ~mobileMenuOpen
    /\ lastEvent = "menuButton" => mobileMenuOpen
    /\ lastEvent \in CloseEvents => ~mobileMenuOpen

\* The close button is activated on a menu that is already closed.
C9_Witness ==
    /\ lastEvent = "closeButton"
    /\ ~prevOpen
    /\ ~mobileMenuOpen

\* C10: within a mount of the Header mobileMenuOpen changes only by the open
\* trigger, from closed to open, and by the three close triggers, from open
\* to closed; no other event changes it.
C10_OnlyFourTriggers ==
    [][ (lastEvent' \notin MountEvents /\ mobileMenuOpen' # mobileMenuOpen) =>
            \/ /\ lastEvent' = "menuButton"
               /\ ~mobileMenuOpen /\ mobileMenuOpen'
            \/ /\ lastEvent' \in CloseEvents
               /\ mobileMenuOpen /\ ~mobileMenuOpen' ]_vars

\* A section was toggled while the overlay was open, and it stayed open.
C10_Witness ==
    /\ lastEvent = "disclosure"
    /\ prevOpen
    /\ mobileMenuOpen
    /\ disclosureOpen["Product"]

----------------------------------------------------------------------------
(* Properties of the Dialog's resources and of the sections, under Spec *)

C12_MenuAndSectionsIndependent ==
    [][ /\ lastEvent' \in CloseEvents \cup { "menuButton" } =>
               disclosureOpen' = disclosureOpen
        /\ lastEvent' = "disclosure" =>
               /\ mobileMenuOpen' = mobileMenuOpen
               /\ \A s \in Sections \ { streak'.id } :
                      disclosureOpen'[s] = disclosureOpen[s] ]_vars

C14_RemountResets ==
    lastEvent = "mount" =>
        /\ ~mobileMenuOpen
        /\ disclosureOpen = AllCollapsed

\* A page was served while the overlay was open and a section Expanded.
C14_Witness ==
    /\ lastEvent = "mount"
    /\ prevOpen
    /\ prevDisclosure["Product"]
    /\ ~mobileMenuOpen
    /\ ~disclosureOpen["Product"]

C16_UnknownSectionIsNoOp ==
    [][ lastEvent' = "unknownSection" =>
            /\ mobileMenuOpen' = mobileMenuOpen
            /\ disclosureOpen' = disclosureOpen
            /\ DOMAIN disclosureOpen' = Sections ]_vars

\* An unknown id was toggled while the overlay was open and a section
\* Expanded.
C16_Witness ==
    /\ lastEvent = "unknownSection"
    /\ mobileMenuOpen
    /\ disclosureOpen["Product"]
    /\ prevDisclosure = disclosureOpen

----------------------------------------------------------------------------
(* Properties of the requests of a browsing session, under Spec *)

RequestEvents == { "mount", "redirect", "unmount" }

\* C17: a protected page is served only by a request handled while a
\* session is present, with decision Allow for that request; a request to a
\* protected path handled without a session, whatever was decided before
\* and whatever page is shown, is answered with the redirect to /login and
\* the protected page is not served.
C17_ProtectedServedOnlyWithSession ==
    [][ /\ (lastEvent' = "mount" /\ StartsWith(page', DashboardPath)) =>
               /\ session.present
               /\ lastDecision' = Allow
        /\ ( /\ lastEvent' \in RequestEvents
             /\ StartsWith(reqPath, DashboardPath)
             /\ ~session.present ) =>
               /\ lastDecision' = DenyRedirectToLogin(LoginPath)
               /\ lastEvent' = "redirect"
               /\ reqPath' = LoginPath
               /\ page' = page ]_vars

\* The dashboard is shown from an earlier Allow, the session is gone, and
\* the next request to the dashboard was redirected to /login.
C17_Witness ==
    /\ lastEvent = "redirect"
    /\ lastDecision = DenyRedirectToLogin(LoginPath)
    /\ StartsWith(page, DashboardPath)
    /\ ~session.present
    /\ reqPath = LoginPath

----------------------------------------------------------------------------
(* Equivalence of the two guards, under GuardSpec *)

\* C18: the authorized callback and the middleware handler make the same
\* decision for every session and every path.
C18_AuthorizedEqualsMiddleware == Decided => gAuthorized = gMiddleware

----------------------------------------------------------------------------
(* Properties of the callbacks, under CallbackSpec *)

\* C19: jwt with a user returns the token with sub set to user.id and
\* without a user returns the token unchanged; session sets session.user.id
\* to token.sub when token.sub and session.user both exist and otherwise
\* returns the session unchanged; so after a sign-in session.user.id is the
\* id of the user who signed in.
C19_UserIdReachesSession ==
    cPhase = "done" =>
        /\ cUser.present => cTokenOut = [cToken EXCEPT !.sub = cUser.id]
        /\ ~cUser.present => cTokenOut = cToken
        /\ (cTokenOut.sub # Undefined /\ cSession.user.present) =>
               cSessionOut = [cSession EXCEPT !.user.id = cTokenOut.sub]
        /\ ~(cTokenOut.sub # Undefined /\ cSession.user.present) =>
               cSessionOut = cSession
        /\ (cUser.present /\ cSession.user.present) =>
               cSessionOut.user.id = cUser.id

\* A user signed in over a token and a session that carried another id.
C19_Witness ==
    /\ cPhase = "done"
    /\ cUser.present
    /\ cToken.sub \in Users \ { cUser.id }
    /\ cSession.user.present
    /\ cSession.user.id \in Users \ { cUser.id }
    /\ cSessionOut.user.id = cUser.id

====
